---- MODULE Spec2Model ----
(***************************************************************************)
(* The insurance-analytics star-schema pipeline:                           *)
(*   04_module_C_normalizer.py    raw tables -> nine staged tables         *)
(*   05_healthcheck_normalizer.py pre-load validation of the staged tables *)
(*   09_module_E_loader.py        truncate + COPY of the staged tables     *)
(*   10_healthcheck_loader.py     post-load validation of the store        *)
(*                                                                         *)
(* Tables are sequences of records.  Only the columns that a key, a join,  *)
(* a check or a coercion reads are kept; the columns the scripts copy      *)
(* through unchanged (age, gender, premiums, claim amounts, ...) are left  *)
(* out.  A cell that pandas holds as NaN/None is the Null of its column    *)
(* type.                                                                   *)
(***************************************************************************)
EXTENDS Integers, Sequences, FiniteSets, TLC

VARIABLES
    raw,        \* output/raw: the five raw tables, [present, rows] each
    dbUrl,      \* whether SUPABASE_DB_URL is set in the environment
    staged,     \* output/normalized: the nine staged files, [present, rows] each
    store,      \* the committed contents of the nine store tables
    txn,        \* the loader's open transaction: [open, tables]
    stage,      \* the stage the pipeline is in
    step,       \* the position inside the stage
    exit,       \* the exit status of each stage of this run (NotRun, 0, 1)
    preLog,     \* the status lines the pre-load validator printed
    postErrors, \* the errors list of the post-load validator
    viewLog,    \* history: what the execution of each view returned
    loadLog,    \* the statements the loader executed in its transaction
    storeAtStart,   \* history: the store when this run started
    stagedComplete  \* history: all nine staged files come from one completed transform

vars == <<raw, dbUrl, staged, store, txn, stage, step, exit, preLog, postErrors,
          viewLog, loadLog, storeAtStart, stagedComplete>>

-----------------------------------------------------------------------------
(* Generic helpers on sequences.                                           *)

Range(s) == {s[i] : i \in 1..Len(s)}

Col(rows, c) == {rows[i][c] : i \in 1..Len(rows)}

Proj(r, cols) == [c \in cols |-> r[c]]

RECURSIVE drop_duplicates(_, _)
\* DataFrame.drop_duplicates(cols): the first row of each key, in row order.
drop_duplicates(rows, cols) ==
    IF rows = <<>> THEN <<>>
    ELSE LET init == SubSeq(rows, 1, Len(rows) - 1)
             last == rows[Len(rows)]
             kept == drop_duplicates(init, cols)
         IN  IF \E i \in 1..Len(init) : Proj(init[i], cols) = Proj(last, cols)
             THEN kept ELSE Append(kept, last)

HasDuplicates(rows, c) ==
    \E i, j \in 1..Len(rows) : i < j /\ rows[i][c] = rows[j][c]

-----------------------------------------------------------------------------
(* Calendar.  A raw date cell is the text of a date, <<year, month, day>>; *)
(* pd.to_datetime turns it into a timestamp, here the number of days since *)
(* the first day of FirstYear; strftime("%Y%m%d").astype(int) turns a      *)
(* timestamp into a date key.  The model's calendar spans the years the    *)
(* data generator is configured for; a cell outside it, or one that names  *)
(* no calendar day, is unparseable.                                        *)

FirstYear == 2024
LastYear == 2025

NaT == 0 - 1
NullKey == 0 - 1

IsLeap(y) == (y % 4 = 0 /\ y % 100 # 0) \/ y % 400 = 0

DaysInMonth(y, m) ==
    IF m = 2 THEN (IF IsLeap(y) THEN 29 ELSE 28)
    ELSE IF m \in {4, 6, 9, 11} THEN 30 ELSE 31

DaysInYear(y) == IF IsLeap(y) THEN 366 ELSE 365

ValidDate(d) ==
    /\ d[1] \in FirstYear..LastYear
    /\ d[2] \in 1..12
    /\ d[3] \in 1..DaysInMonth(d[1], d[2])

RECURSIVE DaysBeforeYear(_)
DaysBeforeYear(y) ==
    IF y <= FirstYear THEN 0 ELSE DaysBeforeYear(y - 1) + DaysInYear(y - 1)

RECURSIVE DaysBeforeMonth(_, _)
DaysBeforeMonth(y, m) ==
    IF m <= 1 THEN 0 ELSE DaysBeforeMonth(y, m - 1) + DaysInMonth(y, m - 1)

\* pd.to_datetime(col, errors="coerce"): an unparseable cell becomes NaT.
to_datetime(d) ==
    IF ValidDate(d)
    THEN DaysBeforeYear(d[1]) + DaysBeforeMonth(d[1], d[2]) + d[3] - 1
    ELSE NaT

RECURSIVE YearOf(_, _)
YearOf(n, y) == IF n < DaysInYear(y) THEN <<y, n>> ELSE YearOf(n - DaysInYear(y), y + 1)

RECURSIVE MonthOf(_, _, _)
MonthOf(n, y, m) ==
    IF n < DaysInMonth(y, m) THEN <<m, n>> ELSE MonthOf(n - DaysInMonth(y, m), y, m + 1)

\* Timestamp.date(): the calendar date of a timestamp.
DateOf(n) ==
    LET yn == YearOf(n, FirstYear)
        mn == MonthOf(yn[2], yn[1], 1)
    IN  <<yn[1], mn[1], mn[2] + 1>>

\* strftime("%Y%m%d").astype(int)
DateKey(n) == LET d == DateOf(n) IN d[1] * 10000 + d[2] * 100 + d[3]

MonthKeySameDay(n) == LET d == DateOf(n) IN d[1] * 10000 + d[2] * 100 + d[3]

\* strftime("%Y%m01").astype(int)
MonthKey(n) == LET d == DateOf(n) IN d[1] * 10000 + d[2] * 100 + 1

-----------------------------------------------------------------------------
(* Product key.  A text cell is a sequence of characters.                  *)

Upper(c) == IF c = "a" THEN "A" ELSE IF c = "b" THEN "B" ELSE c

NullText == <<"NaN">>
NullCode == "NaN"

\* The state codes of the model, in the order sort_values puts them.
StateOrder == <<"CA", "NY", "TX">>

\* Series.str.upper(); the string methods pass a NaN cell through.
str_upper(text) ==
    IF text = NullText THEN NullText ELSE [i \in 1..Len(text) |-> Upper(text[i])]

\* Series.str.replace(" ", "_")
str_replace(text) ==
    IF text = NullText THEN NullText
    ELSE [i \in 1..Len(text) |-> IF text[i] = " " THEN "_" ELSE text[i]]

\* line_of_business + "_" + plan_name: NaN when either cell is NaN.
Joined(lob, plan) ==
    IF lob = NullText \/ plan = NullText THEN NullText ELSE lob \o <<"_">> \o plan

\* The product key as build_dim_products, build_fact_policies and
\* build_fact_claims each spell it out.
DimProductKey(lob, plan) == str_replace(str_upper(Joined(lob, plan)))

FactPolicyKey(lob, plan) == str_replace(str_upper(Joined(lob, plan)))

FactClaimKeyUpperOnly(lob, plan) == str_upper(Joined(lob, plan))

FactClaimKey(lob, plan) == str_replace(str_upper(Joined(lob, plan)))

-----------------------------------------------------------------------------
(* Module C, the transform: five dimension builders, four fact builders.   *)
(* A builder yields [ok, rows]; ok = FALSE is an exception raised by it.   *)

Built(rows) == [ok |-> TRUE, rows |-> rows]
Raised == [ok |-> FALSE, rows |-> <<>>]

DateCol(rows, c) == [i \in 1..Len(rows) |-> to_datetime(rows[i][c])]

ValidDates(s) == {s[i] : i \in 1..Len(s)} \ {NaT}

SetMin(S) == CHOOSE x \in S : \A y \in S : x <= y
SetMax(S) == CHOOSE x \in S : \A y \in S : x >= y

\* Series.min() / Series.max(): NaT cells are skipped, an all-NaT series gives NaT.
SeriesMin(s) == IF ValidDates(s) = {} THEN NaT ELSE SetMin(ValidDates(s))
SeriesMax(s) == IF ValidDates(s) = {} THEN NaT ELSE SetMax(ValidDates(s))

RECURSIVE PyMin(_)
\* Python min(): keeps the first item unless a later one compares less;
\* every comparison with NaT is False.
PyMin(xs) ==
    IF Len(xs) = 1 THEN xs[1]
    ELSE LET cur == PyMin(SubSeq(xs, 1, Len(xs) - 1))
             x == xs[Len(xs)]
         IN  IF x # NaT /\ cur # NaT /\ x < cur THEN x ELSE cur

RECURSIVE PyMax(_)
PyMax(xs) ==
    IF Len(xs) = 1 THEN xs[1]
    ELSE LET cur == PyMax(SubSeq(xs, 1, Len(xs) - 1))
             x == xs[Len(xs)]
         IN  IF x # NaT /\ cur # NaT /\ x > cur THEN x ELSE cur

date_range_open(lo, hi) == [i \in 1..(hi - lo) |-> lo + i - 1]

\* pd.date_range(min_date, max_date, freq="D"); raises on a NaT end point.
date_range(lo, hi) == [i \in 1..(hi - lo + 1) |-> lo + i - 1]

build_dim_time_no_expiration(policies, claims) ==
    LET dates == << DateCol(policies, "effective_date"),
                    DateCol(claims, "incident_date"),
                    DateCol(claims, "report_date") >>
        min_date == PyMin([i \in 1..3 |-> SeriesMin(dates[i])])
        max_date == PyMax([i \in 1..3 |-> SeriesMax(dates[i])])
        rng == date_range(min_date, max_date)
    IN  IF min_date = NaT \/ max_date = NaT THEN Raised
        ELSE Built([i \in 1..Len(rng) |->
                      [date_key |-> DateKey(rng[i]), full_date |-> DateOf(rng[i])]])

build_dim_time(policies, claims) ==
    LET dates == << DateCol(policies, "effective_date"),
                    DateCol(policies, "expiration_date"),
                    DateCol(claims, "incident_date"),
                    DateCol(claims, "report_date") >>
        min_date == PyMin([i \in 1..4 |-> SeriesMin(dates[i])])
        max_date == PyMax([i \in 1..4 |-> SeriesMax(dates[i])])
        rng == date_range(min_date, max_date)
    IN  IF min_date = NaT \/ max_date = NaT THEN Raised
        ELSE Built([i \in 1..Len(rng) |->
                      [date_key |-> DateKey(rng[i]), full_date |-> DateOf(rng[i])]])

StateRank(code) == CHOOSE i \in 1..Len(StateOrder) : StateOrder[i] = code

RECURSIVE sort_values(_)
\* DataFrame.sort_values("state_code"): insertion of the last row into the
\* sorted rest, after the rows that do not sort after it.
sort_values(rows) ==
    IF Len(rows) <= 1 THEN rows
    ELSE LET init == sort_values(SubSeq(rows, 1, Len(rows) - 1))
             last == rows[Len(rows)]
             n == Cardinality({i \in 1..Len(init) :
                     StateRank(init[i].state_code) <= StateRank(last.state_code)})
         IN  SubSeq(init, 1, n) \o <<last>> \o SubSeq(init, n + 1, Len(init))

build_dim_state(clients) ==
    Built(sort_values(drop_duplicates(
        [i \in 1..Len(clients) |->
            Proj(clients[i], {"state_code", "region_code", "market_tier"})],
        {"state_code", "region_code", "market_tier"})))

build_dim_clients(clients) ==
    LET kept == drop_duplicates(clients, {"client_id"})
    IN  Built([i \in 1..Len(kept) |-> Proj(kept[i], {"client_id", "state_code"})])

build_dim_products(policies) ==
    LET df == drop_duplicates(
                  [i \in 1..Len(policies) |->
                      Proj(policies[i], {"line_of_business", "plan_name"})],
                  {"line_of_business", "plan_name"})
    IN  Built([i \in 1..Len(df) |->
                 [product_key |-> DimProductKey(df[i].line_of_business, df[i].plan_name),
                  line_of_business |-> df[i].line_of_business,
                  plan_name |-> df[i].plan_name]])

build_dim_policies(policies) ==
    LET kept == drop_duplicates(policies, {"policy_id"})
    IN  Built([i \in 1..Len(kept) |->
                 Proj(kept[i], {"policy_id", "client_id", "state_code"})])

\* pd.to_datetime(col) without errors="coerce", then strftime(...).astype(int):
\* an unparseable or missing cell raises.
AllParse(rows, cols) ==
    \A i \in 1..Len(rows) : \A c \in cols : to_datetime(rows[i][c]) # NaT

build_fact_policies(policies) ==
    IF ~AllParse(policies, {"effective_date", "expiration_date"}) THEN Raised
    ELSE Built([i \in 1..Len(policies) |->
                  [policy_id |-> policies[i].policy_id,
                   product_key |-> FactPolicyKey(policies[i].line_of_business,
                                                 policies[i].plan_name),
                   state_code |-> policies[i].state_code,
                   effective_date_key |->
                       DateKey(to_datetime(policies[i].effective_date)),
                   expiration_date_key |->
                       DateKey(to_datetime(policies[i].expiration_date))]])

Matches(claim, policies) ==
    SelectSeq(policies, LAMBDA p : p.policy_id = claim.policy_id)

RECURSIVE merge_inner(_, _)
merge_inner(claims, policies) ==
    IF claims = <<>> THEN <<>>
    ELSE LET c == claims[1]
             ms == Matches(c, policies)
         IN  [j \in 1..Len(ms) |->
                 [claim |-> c, state_code |-> ms[j].state_code,
                  region_code |-> ms[j].region_code,
                  line_of_business |-> ms[j].line_of_business,
                  plan_name |-> ms[j].plan_name]]
             \o merge_inner(Tail(claims), policies)

RECURSIVE merge_left(_, _)
\* claims.merge(policies[[...]], on="policy_id", how="left"): one row per
\* matching policy row, and one row with NaN enrichment when none matches.
merge_left(claims, policies) ==
    IF claims = <<>> THEN <<>>
    ELSE LET c == claims[1]
             ms == Matches(c, policies)
             joined ==
                 IF ms = <<>>
                 THEN << [claim |-> c, state_code |-> NullCode,
                          region_code |-> NullCode,
                          line_of_business |-> NullText, plan_name |-> NullText] >>
                 ELSE [j \in 1..Len(ms) |->
                          [claim |-> c, state_code |-> ms[j].state_code,
                           region_code |-> ms[j].region_code,
                           line_of_business |-> ms[j].line_of_business,
                           plan_name |-> ms[j].plan_name]]
         IN  joined \o merge_left(Tail(claims), policies)

\* fillna(False).astype(bool), written by to_csv as True / False.
FraudBool(cell) == IF cell = "True" THEN "True" ELSE "False"

build_fact_claims(claims, policies) ==
    LET df == merge_left(claims, policies)
    IN  IF ~AllParse(claims, {"incident_date", "report_date"}) THEN Raised
        ELSE Built([i \in 1..Len(df) |->
                  [claim_id |-> df[i].claim.claim_id,
                   policy_id |-> df[i].claim.policy_id,
                   product_key |-> FactClaimKey(df[i].line_of_business, df[i].plan_name),
                   line_of_business |-> df[i].line_of_business,
                   state_code |-> df[i].state_code,
                   region_code |-> df[i].region_code,
                   fraud_flag |-> FraudBool(df[i].claim.fraud_flag),
                   incident_date_key |->
                       DateKey(to_datetime(df[i].claim.incident_date)),
                   report_date_key |->
                       DateKey(to_datetime(df[i].claim.report_date)),
                   settlement_date_key |-> NullKey]])

build_fact_expenses(expenses) ==
    IF ~AllParse(expenses, {"expense_month"}) THEN Raised
    ELSE Built([i \in 1..Len(expenses) |->
                  [expense_id |-> expenses[i].expense_id,
                   state_code |-> expenses[i].state_code,
                   date_key |-> MonthKey(to_datetime(expenses[i].expense_month)),
                   expense_amount |-> expenses[i].expense_amount]])

build_fact_taxes(taxes) ==
    Built([i \in 1..Len(taxes) |->
             [tax_id |-> taxes[i].tax_id,
              policy_id |-> taxes[i].policy_id,
              state_code |-> taxes[i].state_code,
              tax_amount |-> taxes[i].tax_amount]])

-----------------------------------------------------------------------------
(* Files and tables.                                                       *)

DimTables == <<"dim_time", "dim_state", "dim_clients", "dim_products", "dim_policies">>
FactTables == <<"fact_policies", "fact_claims", "fact_expenses", "fact_taxes">>

\* The order main() of the transform saves the tables in, which is also the
\* order the loader copies them in.
SaveOrder == DimTables \o FactTables

Tables == Range(SaveOrder)

RawOrder == <<"clients", "policies", "claims", "expenses", "taxes">>

File(rows) == [present |-> TRUE, rows |-> rows]
Missing == [present |-> FALSE, rows |-> <<>>]

NoFiles == [t \in Tables |-> Missing]
EmptyStore == [t \in Tables |-> <<>>]

-----------------------------------------------------------------------------
(* The raw inputs.  The raw tables come from the data generator, which is  *)
(* outside the pipeline; the model draws them from bounded sets.           *)

MaxRows == 2

ClientRow(id, st, tier) ==
    [client_id |-> id, state_code |-> st, region_code |-> "W", market_tier |-> tier]

PolicyRow(id, cl, st, lob, plan, eff, exp) ==
    [policy_id |-> id, client_id |-> cl, state_code |-> st, region_code |-> "W",
     line_of_business |-> lob, plan_name |-> plan,
     effective_date |-> eff, expiration_date |-> exp]

ClaimRow(id, pol, inc, rep, fraud) ==
    [claim_id |-> id, policy_id |-> pol, incident_date |-> inc,
     report_date |-> rep, fraud_flag |-> fraud]

ExpenseRow(id, st, month, amt) ==
    [expense_id |-> id, state_code |-> st, expense_month |-> month,
     expense_amount |-> amt]

TaxRow(id, pol, st, amt) ==
    [tax_id |-> id, policy_id |-> pol, state_code |-> st, tax_amount |-> amt]

RawOf(c, p, cl, e, t) ==
    [clients |-> File(c), policies |-> File(p), claims |-> File(cl),
     expenses |-> File(e), taxes |-> File(t)]

\* Date cells: three consecutive days across the end of a leap February,
\* and a cell that names no calendar day.
Feb28 == <<2024, 2, 28>>
Feb29 == <<2024, 2, 29>>
Mar01 == <<2024, 3, 1>>
BadDate == <<2024, 2, 30>>
DateCells == {Feb28, Feb29, Mar01, BadDate}

\* Text cells of line_of_business and plan_name.
TextCells == {<<"a">>, <<"A">>, <<"a", " ", "b">>, <<"a", "_", "b">>}

Amounts == {0 - 10, 0, 10}

\* Scenario A of the specification: two clients in one state, one policy
\* each, one claim.
BaseClients == <<ClientRow(1, "CA", 1), ClientRow(2, "CA", 1)>>
BasePolicies == << PolicyRow(1, 1, "CA", <<"a">>, <<"b">>, Feb28, Mar01),
                   PolicyRow(2, 2, "CA", <<"a">>, <<"b">>, Feb29, Mar01) >>
BaseClaims == <<ClaimRow(1, 1, Feb29, Mar01, "False")>>
BaseExpenses == <<ExpenseRow(1, "CA", Mar01, 10)>>
BaseTaxes == <<TaxRow(1, 1, "CA", 5)>>
BaseRaw == RawOf(BaseClients, BasePolicies, BaseClaims, BaseExpenses, BaseTaxes)

\* All sequences of 1..n rows drawn from a set of rows.
SeqsUpTo(S, n) == UNION {[1..k -> S] : k \in 1..n}

\* Policies that differ in their dates, in their product texts, in their keys.
PolicyTablesByDate ==
    SeqsUpTo({PolicyRow(1, 1, "CA", <<"a">>, <<"b">>, e, x) :
                 e \in DateCells, x \in DateCells}, MaxRows)
PolicyTablesByText ==
    SeqsUpTo({PolicyRow(1, 1, "CA", l, pl, Feb28, Mar01) :
                 l \in TextCells, pl \in TextCells}, MaxRows)
PolicyTablesByKey ==
    SeqsUpTo({PolicyRow(id, cl, st, <<"a">>, <<"b">>, Feb28, Mar01) :
                 id \in {1, 2}, cl \in {1, 3}, st \in {"CA", "TX"}}, MaxRows)

ClaimTablesByDate ==
    SeqsUpTo({ClaimRow(1, 1, i, r, "False") : i \in DateCells, r \in DateCells},
             MaxRows)
ClaimTablesByKey ==
    SeqsUpTo({ClaimRow(id, pol, Feb29, Mar01, f) :
                 id \in {1, 2}, pol \in {1, 2, 9}, f \in {"True", "False", NullCode}},
             MaxRows)

ClientTables ==
    SeqsUpTo({ClientRow(id, st, tier) :
                 id \in {1, 2}, st \in {"CA", "NY", "TX"}, tier \in {1, 2}}, MaxRows)

ExpenseTables ==
    SeqsUpTo({ExpenseRow(1, st, m, a) :
                 st \in {"CA", "TX"}, m \in {Feb28, Mar01, BadDate}, a \in Amounts},
             MaxRows)

TaxTables ==
    SeqsUpTo({TaxRow(1, pol, st, a) :
                 pol \in {1, 9}, st \in {"CA", "TX"}, a \in Amounts}, MaxRows)

\* The inputs of the staging runs: the baseline with one table replaced.
StagingInputs ==
    {[BaseRaw EXCEPT !.policies = File(p)] :
        p \in PolicyTablesByDate \cup PolicyTablesByText \cup PolicyTablesByKey}
    \cup {[BaseRaw EXCEPT !.claims = File(c)] :
             c \in ClaimTablesByDate \cup ClaimTablesByKey}
    \cup {[BaseRaw EXCEPT !.clients = File(c)] : c \in ClientTables}
    \cup {[BaseRaw EXCEPT !.expenses = File(e)] : e \in ExpenseTables}
    \cup {[BaseRaw EXCEPT !.taxes = File(t)] : t \in TaxTables}
    \cup {[BaseRaw EXCEPT ![t] = f] : t \in Range(RawOrder), f \in {Missing, File(<<>>)}}

-----------------------------------------------------------------------------
(* The pipeline: the stages run in order, each one only after the one      *)
(* before it exited with status 0.                                         *)

NotRun == 0 - 1

Stages == <<"transform", "precheck", "load", "postcheck">>

NoExits == [g \in Range(Stages) |-> NotRun]

\* Where the pipeline goes when a stage exits with a status.
AfterExit(g, status) ==
    IF status # 0 THEN "halted"
    ELSE CASE g = "transform" -> "precheck"
           [] g = "precheck" -> "load"
           [] g = "load" -> "postcheck"
           [] g = "postcheck" -> "done"

\* The stage g ends with a status: the process exits and the pipeline moves on.
ExitStage(g, status) ==
    /\ exit' = [exit EXCEPT ![g] = status]
    /\ stage' = AfterExit(g, status)
    /\ step' = 1

-----------------------------------------------------------------------------
(* Module C main(): load the five raw tables, then build and save the nine *)
(* tables one after the other.                                             *)

RawLoadsWhenPresent(f) == f.present

\* load_csv: fail() on a missing or empty raw file.
RawLoads(f) == f.present /\ f.rows # <<>>

Build(t, r) ==
    CASE t = "dim_time" -> build_dim_time(r.policies.rows, r.claims.rows)
      [] t = "dim_state" -> build_dim_state(r.clients.rows)
      [] t = "dim_clients" -> build_dim_clients(r.clients.rows)
      [] t = "dim_products" -> build_dim_products(r.policies.rows)
      [] t = "dim_policies" -> build_dim_policies(r.policies.rows)
      [] t = "fact_policies" -> build_fact_policies(r.policies.rows)
      [] t = "fact_claims" -> build_fact_claims(r.claims.rows, r.policies.rows)
      [] t = "fact_expenses" -> build_fact_expenses(r.expenses.rows)
      [] t = "fact_taxes" -> build_fact_taxes(r.taxes.rows)

TransformStatusZero(finished) == 0

\* The exit status of the transform process: fail() exits 1, an exception
\* that main() does not catch ends the process with status 1 too.
TransformStatus(finished) == IF finished THEN 0 ELSE 1

NRaw == Len(RawOrder)
NTables == Len(SaveOrder)

TransformLoad ==
    /\ stage = "transform"
    /\ step \in 1..NRaw
    /\ IF RawLoads(raw[RawOrder[step]])
       THEN /\ step' = step + 1
            /\ UNCHANGED <<stage, exit>>
       ELSE ExitStage("transform", TransformStatus(FALSE))
    /\ UNCHANGED <<raw, dbUrl, staged, store, txn, preLog, postErrors, viewLog, loadLog,
                   storeAtStart, stagedComplete>>

TransformSave ==
    /\ stage = "transform"
    /\ step \in (NRaw + 1)..(NRaw + NTables)
    /\ LET t == SaveOrder[step - NRaw]
           b == Build(t, raw)
       IN  IF b.ok
           THEN /\ staged' = [staged EXCEPT ![t] = File(b.rows)]
                /\ stagedComplete' = (step = NRaw + NTables)
                /\ IF step = NRaw + NTables
                   THEN ExitStage("transform", TransformStatus(TRUE))
                   ELSE /\ step' = step + 1
                        /\ UNCHANGED <<stage, exit>>
           ELSE /\ ExitStage("transform", TransformStatus(FALSE))
                /\ UNCHANGED <<staged, stagedComplete>>
    /\ UNCHANGED <<raw, dbUrl, store, txn, preLog, postErrors, viewLog, loadLog, storeAtStart>>

-----------------------------------------------------------------------------
(* Module C healthcheck, the pre-load validator.  fail() prints a FAIL     *)
(* line and exits with status 1; warn() and ok() print and return.         *)

\* A printed status line; count is the number a warning carries.
Line(level, msg) == [level |-> level, msg |-> msg, count |-> 0]

FailExitZero == 1 - 1

\* fail(): sys.exit(1)
FailExit == 1

\* One test inside a check function: bad is the condition of the if, level
\* is what the if-branch calls (fail or warn).
Test(bad, level, msg) == [bad |-> bad, level |-> level, msg |-> msg, count |-> 0]

WarnAsFail(missing, msg) ==
    [bad |-> missing # {}, level |-> "FAIL", msg |-> msg, count |-> Cardinality(missing)]

\* if missing: warn(f"{len(missing)} ... (allowed)")
Warn(missing, msg) ==
    [bad |-> missing # {}, level |-> "WARN", msg |-> msg, count |-> Cardinality(missing)]

RECURSIVE RunTests(_, _)
\* The body of a check function: the tests in order, stopping at the first
\* fail(), and the closing ok() when no test failed.
RunTests(tests, okMsg) ==
    IF tests = <<>> THEN <<Line("OK", okMsg)>>
    ELSE LET t == tests[1]
         IN  IF ~t.bad THEN RunTests(Tail(tests), okMsg)
             ELSE IF t.level = "FAIL" THEN <<Line("FAIL", t.msg)>>
             ELSE <<[Line("WARN", t.msg) EXCEPT !.count = t.count]>>
                      \o RunTests(Tail(tests), okMsg)

Failed(lines) == \E i \in 1..Len(lines) : lines[i].level = "FAIL"

\* set(df[c]) - set(dim[k]) is not empty
Unresolved(df, c, dim, k) == Col(df, c) \ Col(dim, k) # {}

\* check_files: every expected file is in the directory.
check_files(files) ==
    RunTests(<<Test(\E t \in Tables : ~files[t].present, "FAIL", "missing files")>>,
             "files present")

\* load_csv of the validator: an empty file is fatal.
load_csv(files, t) ==
    RunTests(<<Test(~files[t].present, "FAIL", t),
               Test(files[t].rows = <<>>, "FAIL", t)>>, t)

check_dim_time(d) ==
    RunTests(<<Test(HasDuplicates(d["dim_time"], "date_key"), "FAIL",
                    "dim_time.date_key")>>, "dim_time")

check_dim_state(d) ==
    RunTests(<<Test(HasDuplicates(d["dim_state"], "state_code"), "FAIL",
                    "dim_state.state_code")>>, "dim_state")

check_dim_clients(d) ==
    RunTests(<<Test(HasDuplicates(d["dim_clients"], "client_id"), "FAIL",
                    "dim_clients.client_id"),
               Test(Unresolved(d["dim_clients"], "state_code",
                               d["dim_state"], "state_code"), "FAIL",
                    "dim_clients.state_code")>>, "dim_clients")

check_dim_products(d) ==
    RunTests(<<Test(HasDuplicates(d["dim_products"], "product_key"), "FAIL",
                    "dim_products.product_key")>>, "dim_products")

check_dim_policies(d) ==
    RunTests(<<Test(HasDuplicates(d["dim_policies"], "policy_id"), "FAIL",
                    "dim_policies.policy_id"),
               Test(Unresolved(d["dim_policies"], "client_id",
                               d["dim_clients"], "client_id"), "FAIL",
                    "dim_policies.client_id"),
               Test(Unresolved(d["dim_policies"], "state_code",
                               d["dim_state"], "state_code"), "FAIL",
                    "dim_policies.state_code")>>, "dim_policies")

check_fact_policies(d) ==
    RunTests(<<Test(Unresolved(d["fact_policies"], "policy_id",
                               d["dim_policies"], "policy_id"), "FAIL",
                    "fact_policies.policy_id"),
               Test(Unresolved(d["fact_policies"], "product_key",
                               d["dim_products"], "product_key"), "FAIL",
                    "fact_policies.product_key"),
               Test(Unresolved(d["fact_policies"], "state_code",
                               d["dim_state"], "state_code"), "FAIL",
                    "fact_policies.state_code"),
               Test(Unresolved(d["fact_policies"], "effective_date_key",
                               d["dim_time"], "date_key"), "FAIL",
                    "fact_policies.effective_date_key"),
               Warn(Col(d["fact_policies"], "expiration_date_key")
                        \ Col(d["dim_time"], "date_key"),
                    "fact_policies.expiration_date_key")>>, "fact_policies")

check_fact_claims(d) ==
    RunTests(<<Test(Unresolved(d["fact_claims"], "policy_id",
                               d["dim_policies"], "policy_id"), "FAIL",
                    "fact_claims.policy_id"),
               Test(Unresolved(d["fact_claims"], "product_key",
                               d["dim_products"], "product_key"), "FAIL",
                    "fact_claims.product_key"),
               Test(Unresolved(d["fact_claims"], "state_code",
                               d["dim_state"], "state_code"), "FAIL",
                    "fact_claims.state_code"),
               Test(Unresolved(d["fact_claims"], "incident_date_key",
                               d["dim_time"], "date_key"), "FAIL",
                    "fact_claims.incident_date_key"),
               Test(Unresolved(d["fact_claims"], "report_date_key",
                               d["dim_time"], "date_key"), "FAIL",
                    "fact_claims.report_date_key"),
               Warn((Col(d["fact_claims"], "settlement_date_key") \ {NullKey})
                        \ Col(d["dim_time"], "date_key"),
                    "fact_claims.settlement_date_key")>>, "fact_claims")

check_fact_expenses_all(d) ==
    RunTests(<<Test(Unresolved(d["fact_expenses"], "date_key",
                               d["dim_time"], "date_key"), "FAIL",
                    "fact_expenses.date_key"),
               Test(Unresolved(d["fact_expenses"], "state_code",
                               d["dim_state"], "state_code"), "FAIL",
                    "fact_expenses.state_code"),
               Test(\A i \in 1..Len(d["fact_expenses"]) :
                        d["fact_expenses"][i].expense_amount < 0, "FAIL",
                    "fact_expenses.expense_amount")>>, "fact_expenses")

check_fact_expenses(d) ==
    RunTests(<<Test(Unresolved(d["fact_expenses"], "date_key",
                               d["dim_time"], "date_key"), "FAIL",
                    "fact_expenses.date_key"),
               Test(Unresolved(d["fact_expenses"], "state_code",
                               d["dim_state"], "state_code"), "FAIL",
                    "fact_expenses.state_code"),
               Test(\E i \in 1..Len(d["fact_expenses"]) :
                        d["fact_expenses"][i].expense_amount < 0, "FAIL",
                    "fact_expenses.expense_amount")>>, "fact_expenses")

check_fact_taxes_no_state(d) ==
    RunTests(<<Test(Unresolved(d["fact_taxes"], "policy_id",
                               d["dim_policies"], "policy_id"), "FAIL",
                    "fact_taxes.policy_id"),
               Test(\E i \in 1..Len(d["fact_taxes"]) :
                        d["fact_taxes"][i].tax_amount < 0, "FAIL",
                    "fact_taxes.tax_amount")>>, "fact_taxes")

check_fact_taxes(d) ==
    RunTests(<<Test(Unresolved(d["fact_taxes"], "policy_id",
                               d["dim_policies"], "policy_id"), "FAIL",
                    "fact_taxes.policy_id"),
               Test(Unresolved(d["fact_taxes"], "state_code",
                               d["dim_state"], "state_code"), "FAIL",
                    "fact_taxes.state_code"),
               Test(\E i \in 1..Len(d["fact_taxes"]) :
                        d["fact_taxes"][i].tax_amount < 0, "FAIL",
                    "fact_taxes.tax_amount")>>, "fact_taxes")

\* ratio = len(fact_claims) / max(len(fact_policies), 1), in hundredths.
sanity_checks(d) ==
    LET claims == Len(d["fact_claims"])
        policies == IF Len(d["fact_policies"]) > 1 THEN Len(d["fact_policies"]) ELSE 1
    IN  RunTests(<<Test(100 * claims < 3 * policies \/ 100 * claims > 80 * policies,
                        "WARN", "claims / policies ratio")>>, "sanity")

\* The calls of main(), in order.
PreChecks == <<"check_files">> \o SaveOrder \o
             <<"check_dim_time", "check_dim_state", "check_dim_clients",
               "check_dim_products", "check_dim_policies", "check_fact_policies",
               "check_fact_claims", "check_fact_expenses", "check_fact_taxes",
               "sanity_checks">>

Frames(files) == [t \in Tables |-> files[t].rows]

PreCheckLines(name, files) ==
    CASE name = "check_files" -> check_files(files)
      [] name \in Tables -> load_csv(files, name)
      [] name = "check_dim_time" -> check_dim_time(Frames(files))
      [] name = "check_dim_state" -> check_dim_state(Frames(files))
      [] name = "check_dim_clients" -> check_dim_clients(Frames(files))
      [] name = "check_dim_products" -> check_dim_products(Frames(files))
      [] name = "check_dim_policies" -> check_dim_policies(Frames(files))
      [] name = "check_fact_policies" -> check_fact_policies(Frames(files))
      [] name = "check_fact_claims" -> check_fact_claims(Frames(files))
      [] name = "check_fact_expenses" -> check_fact_expenses(Frames(files))
      [] name = "check_fact_taxes" -> check_fact_taxes(Frames(files))
      [] name = "sanity_checks" -> sanity_checks(Frames(files))

\* One call of main(): its lines are printed; a FAIL line ends the process
\* with status 1; after the last call the validator has passed.
PreCheck ==
    /\ stage = "precheck"
    /\ step \in 1..Len(PreChecks)
    /\ LET lines == PreCheckLines(PreChecks[step], staged)
       IN  /\ preLog' = preLog \o lines
           /\ IF Failed(lines) THEN ExitStage("precheck", FailExit)
              ELSE IF step = Len(PreChecks) THEN ExitStage("precheck", 0)
              ELSE /\ step' = step + 1
                   /\ UNCHANGED <<stage, exit>>
    /\ UNCHANGED <<raw, dbUrl, staged, store, txn, postErrors, viewLog, loadLog,
                   storeAtStart, stagedComplete>>

-----------------------------------------------------------------------------
(* Module 09, the bulk loader: one transaction that truncates the nine     *)
(* tables and copies the nine staged files into them.                      *)

NoTxn == [conn |-> "none", open |-> FALSE, tables |-> EmptyStore]

\* str.lower() on the texts of the model.
Lower(cell) ==
    CASE cell = "True" -> "true"
      [] cell = "False" -> "false"
      [] cell = "T" -> "t"
      [] OTHER -> cell

\* pd.read_csv on the fraud_flag column: a column whose cells are all
\* numbers or empty, with at least one empty cell, is read as float64.
FloatColumn(cells) ==
    /\ \E i \in 1..Len(cells) : cells[i] = NullCode
    /\ \A i \in 1..Len(cells) : cells[i] \in {NullCode, "0", "1"}

\* str(x) of a cell after read_csv and fillna(0): a float prints with its
\* decimal point; a bool prints as True or False, a string as itself.
StrAsRead(cell, float) ==
    IF float THEN (IF cell = "1" THEN "1.0" ELSE "0.0")
    ELSE IF cell = NullCode THEN "0" ELSE cell

\* The lambda of clean_fact_claims_csv: 1 for a truthy token and 0 otherwise.
CleanFraud(text) == IF Lower(text) \in {"1", "true", "t", "yes"} THEN 1 ELSE 0

clean_fact_claims_csv(rows) ==
    LET float == FloatColumn([i \in 1..Len(rows) |-> rows[i].fraud_flag])
    IN  [i \in 1..Len(rows) |->
            [rows[i] EXCEPT !.fraud_flag = CleanFraud(StrAsRead(@, float))]]

\* The rows copy() streams to COPY ... FROM STDIN WITH CSV HEADER.
CopyRows(t, files) ==
    IF t = "fact_claims" THEN clean_fact_claims_csv(files[t].rows) ELSE files[t].rows

\* TRUNCATE of the named tables.  CASCADE extends it to the tables that
\* reference them, the fact tables, which the first TRUNCATE names itself.
Truncate(tables, names) == [t \in Tables |-> IF t \in names THEN <<>> ELSE tables[t]]

\* The tables the two TRUNCATE statements name, in the order they name them.
TruncateFactsList == <<"fact_claims", "fact_expenses", "fact_taxes", "fact_policies">>
TruncateDimsList == <<"dim_policies", "dim_products", "dim_clients", "dim_state", "dim_time">>

TruncatedFacts == {"fact_claims", "fact_expenses", "fact_taxes", "fact_policies"}
TruncatedDimsNoTime == {"dim_policies", "dim_products", "dim_clients", "dim_state"}

TruncatedDims == {"dim_policies", "dim_products", "dim_clients", "dim_state", "dim_time"}

RolledBackKeepsWork(committed, working) == working

\* What the store holds once the connection of a failed run is gone:
\* conn.rollback() discards the transaction's work.
RolledBack(committed, working) == committed

\* What the store holds after conn.commit().
Committed(committed, working) == working

LoadAbortLeavesOpen ==
    /\ store' = store
    /\ UNCHANGED <<txn, loadLog>>
    /\ ExitStage("load", 1)

\* except: conn.rollback(); raise RuntimeError -- finally: close.
LoadAbort ==
    /\ store' = RolledBack(store, txn.tables)
    /\ txn' = [conn |-> "closed", open |-> FALSE, tables |-> EmptyStore]
    /\ loadLog' = Append(loadLog, "rollback")
    /\ ExitStage("load", 1)

LoadStepsFactsFirst ==
    <<"connect", "begin", "truncate_facts", "truncate_dims">>
        \o FactTables \o DimTables \o <<"commit">>

LoadSteps == <<"connect", "begin", "truncate_facts", "truncate_dims">>
             \o SaveOrder \o <<"commit">>

LoadStep == LoadSteps[step]

\* Module import and the first two lines of run(): a missing DB_URL raises
\* before anything else; a failed connect raises outside the try block.
LoadConnect ==
    /\ stage = "load"
    /\ step \in 1..Len(LoadSteps) /\ LoadStep = "connect"
    /\ \E connected \in BOOLEAN :
          IF dbUrl /\ connected
          THEN /\ txn' = [conn |-> "open", open |-> FALSE, tables |-> EmptyStore]
               /\ step' = step + 1
               /\ UNCHANGED <<stage, exit>>
          ELSE /\ ExitStage("load", 1)
               /\ UNCHANGED txn
    /\ UNCHANGED <<raw, dbUrl, staged, store, preLog, postErrors, viewLog, loadLog,
                   storeAtStart, stagedComplete>>

LoadBegin ==
    /\ stage = "load"
    /\ step \in 1..Len(LoadSteps) /\ LoadStep = "begin"
    /\ \E succeeds \in BOOLEAN :
          IF succeeds
          THEN /\ txn' = [txn EXCEPT !.open = TRUE, !.tables = store]
               /\ loadLog' = Append(loadLog, "begin")
               /\ step' = step + 1
               /\ UNCHANGED <<stage, exit, store>>
          ELSE LoadAbort
    /\ UNCHANGED <<raw, dbUrl, staged, preLog, postErrors, viewLog,
                   storeAtStart,
                   stagedComplete>>

LoadTruncate ==
    /\ stage = "load"
    /\ step \in 1..Len(LoadSteps) /\ LoadStep \in {"truncate_facts", "truncate_dims"}
    /\ \E succeeds \in BOOLEAN :
          IF succeeds
          THEN /\ txn' = [txn EXCEPT !.tables =
                            Truncate(@, IF LoadStep = "truncate_facts"
                                        THEN TruncatedFacts ELSE TruncatedDims)]
               /\ loadLog' = Append(loadLog, LoadStep)
               /\ step' = step + 1
               /\ UNCHANGED <<stage, exit, store>>
          ELSE LoadAbort
    /\ UNCHANGED <<raw, dbUrl, staged, preLog, postErrors, viewLog,
                   storeAtStart,
                   stagedComplete>>

\* copy(): csv_path raises on a missing file; copy_expert appends the rows.
LoadCopy ==
    /\ stage = "load"
    /\ step \in 1..Len(LoadSteps) /\ LoadStep \in Tables
    /\ \E succeeds \in BOOLEAN :
          IF succeeds /\ staged[LoadStep].present
          THEN /\ txn' = [txn EXCEPT !.tables[LoadStep] =
                            @ \o CopyRows(LoadStep, staged)]
               /\ loadLog' = Append(loadLog, LoadStep)
               /\ step' = step + 1
               /\ UNCHANGED <<stage, exit, store>>
          ELSE LoadAbort
    /\ UNCHANGED <<raw, dbUrl, staged, preLog, postErrors, viewLog,
                   storeAtStart,
                   stagedComplete>>

LoadCommit ==
    /\ stage = "load"
    /\ step \in 1..Len(LoadSteps) /\ LoadStep = "commit"
    /\ \E succeeds \in BOOLEAN :
          IF succeeds
          THEN /\ store' = Committed(store, txn.tables)
               /\ txn' = [conn |-> "closed", open |-> FALSE, tables |-> EmptyStore]
               /\ loadLog' = Append(loadLog, "commit")
               /\ ExitStage("load", 0)
          ELSE LoadAbort
    /\ UNCHANGED <<raw, dbUrl, staged, preLog, postErrors, viewLog,
                   storeAtStart,
                   stagedComplete>>

-----------------------------------------------------------------------------
(* Module 10, the post-load validator: fail() prints and appends to the    *)
(* errors list; the summary exits with status 1 when the list is not empty.*)

\* The fk_checks list: (name, child table, child column, parent table, key).
FK(child, col, parent, key) == [child |-> child, col |-> col, parent |-> parent, key |-> key]

fk_checks ==
    << FK("dim_policies", "client_id", "dim_clients", "client_id"),
       FK("fact_policies", "product_key", "dim_products", "product_key"),
       FK("fact_policies", "state_code", "dim_state", "state_code"),
       FK("fact_policies", "effective_date_key", "dim_time", "date_key"),
       FK("fact_claims", "policy_id", "dim_policies", "policy_id"),
       FK("fact_claims", "product_key", "dim_products", "product_key"),
       FK("fact_claims", "state_code", "dim_state", "state_code"),
       FK("fact_claims", "incident_date_key", "dim_time", "date_key") >>

\* The NULL of a column, by the type of the column.
NullOf(col) ==
    CASE col = "product_key" -> NullText
      [] col = "state_code" -> NullCode
      [] OTHER -> NullKey

\* SELECT COUNT(*) FROM child LEFT JOIN parent ON key = col
\* WHERE col IS NOT NULL AND key IS NULL
Broken(tables, fk) ==
    Cardinality({i \in 1..Len(tables[fk.child]) :
        LET v == tables[fk.child][i][fk.col]
        IN  /\ v # NullOf(fk.col)
            /\ \A j \in 1..Len(tables[fk.parent]) : tables[fk.parent][j][fk.key] # v})

views == <<"vw_dash_exec_portfolio", "vw_dash_claims_loss",
           "vw_dash_operations_daily", "vw_dash_risk_daily">>

\* What SELECT 1 FROM view LIMIT 1 can do; the views are defined outside.
ViewResults == {"row", "no rows", "error"}

PostSteps == <<"connect">> \o [i \in 1..NTables |-> "count"]
             \o [i \in 1..Len(fk_checks) |-> "fk"]
             \o [i \in 1..Len(views) |-> "view"] \o <<"summary">>

PostStep == PostSteps[step]

\* Module import and connect: a missing DB_URL exits 1; a failed connect is
\* caught by the except clause, which exits 1.
PostConnect ==
    /\ stage = "postcheck"
    /\ step \in 1..Len(PostSteps) /\ PostStep = "connect"
    /\ \E connected \in BOOLEAN :
          IF dbUrl /\ connected
          THEN /\ step' = step + 1
               /\ UNCHANGED <<stage, exit>>
          ELSE ExitStage("postcheck", 1)
    /\ UNCHANGED <<raw, dbUrl, staged, store, txn, preLog, postErrors, viewLog, loadLog,
                   storeAtStart, stagedComplete>>

PostCount ==
    /\ stage = "postcheck"
    /\ step \in 1..Len(PostSteps) /\ PostStep = "count"
    /\ LET table == SaveOrder[step - 1]
       IN  postErrors' = IF Len(store[table]) > 0 THEN postErrors
                         ELSE Append(postErrors, [check |-> <<table>>, count |-> 0])
    /\ step' = step + 1
    /\ UNCHANGED <<raw, dbUrl, staged, store, txn, stage, exit, preLog, viewLog,
                   loadLog,
                   storeAtStart, stagedComplete>>

PostFk ==
    /\ stage = "postcheck"
    /\ step \in 1..Len(PostSteps) /\ PostStep = "fk"
    /\ LET fk == fk_checks[step - 1 - NTables]
           broken == Broken(store, fk)
       IN  postErrors' = IF broken = 0 THEN postErrors
                         ELSE Append(postErrors,
                                     [check |-> <<fk.child, fk.col>>,
                                      count |-> broken])
    /\ step' = step + 1
    /\ UNCHANGED <<raw, dbUrl, staged, store, txn, stage, exit, preLog, viewLog,
                   loadLog,
                   storeAtStart, stagedComplete>>

\* cur.execute on the view: an error is caught by the except clause, which
\* exits 1; otherwise ok() is printed, whatever the query returned.
PostView ==
    /\ stage = "postcheck"
    /\ step \in 1..Len(PostSteps) /\ PostStep = "view"
    /\ \E result \in ViewResults :
          /\ viewLog' = Append(viewLog, result)
          /\ IF result = "error" THEN ExitStage("postcheck", 1)
             ELSE /\ step' = step + 1
                  /\ UNCHANGED <<stage, exit>>
    /\ UNCHANGED <<raw, dbUrl, staged, store, txn, preLog, postErrors, loadLog,
                   storeAtStart, stagedComplete>>

PostStatusZero(errors) == 0

\* if errors: ... sys.exit(1); otherwise the script ends with status 0.
PostStatus(errors) == IF errors # <<>> THEN 1 ELSE 0

PostSummary ==
    /\ stage = "postcheck"
    /\ step \in 1..Len(PostSteps) /\ PostStep = "summary"
    /\ ExitStage("postcheck", PostStatus(postErrors))
    /\ UNCHANGED <<raw, dbUrl, staged, store, txn, preLog, postErrors, viewLog, loadLog,
                   storeAtStart, stagedComplete>>

-----------------------------------------------------------------------------
(* Staging runs: one transform and one pre-load validation on each input.  *)

InitStaging ==
    /\ raw \in StagingInputs
    /\ dbUrl = TRUE
    /\ staged = NoFiles
    /\ store = EmptyStore
    /\ txn = NoTxn
    /\ stage = "transform"
    /\ step = 1
    /\ exit = NoExits
    /\ preLog = <<>>
    /\ postErrors = <<>>
    /\ viewLog = <<>>
    /\ loadLog = <<>>
    /\ storeAtStart = EmptyStore
    /\ stagedComplete = FALSE

NextStaging == TransformLoad \/ TransformSave \/ PreCheck

SpecStaging == InitStaging /\ [][NextStaging]_vars

-----------------------------------------------------------------------------
(* Pipeline runs: run after run on the same staging directory and store.   *)

\* Scenario D: the reduced client set of a second run.
ReducedRaw ==
    RawOf(<<ClientRow(1, "CA", 1)>>,
          <<PolicyRow(1, 1, "CA", <<"a">>, <<"b">>, Feb28, Mar01)>>,
          BaseClaims, BaseExpenses, BaseTaxes)

\* Scenario C: a negative expense amount.
NegativeExpenseRaw ==
    [BaseRaw EXCEPT !.expenses = File(<<ExpenseRow(1, "CA", Mar01, 0 - 10)>>)]

\* Scenario B: a claim on a policy that is not in the policy table.
OrphanClaimRaw ==
    [BaseRaw EXCEPT !.claims = File(<<ClaimRow(1, 9, Feb29, Mar01, "True")>>)]

\* A policy whose effective date does not parse: build_fact_policies raises
\* after the five dimension tables were saved.
BadPolicyDateRaw ==
    [BaseRaw EXCEPT !.policies = File(<<BasePolicies[1],
        PolicyRow(2, 2, "CA", <<"a">>, <<"b">>, BadDate, Mar01)>>)]

\* An expense month that does not parse: build_fact_expenses raises after
\* seven tables were saved.
BadExpenseMonthRaw ==
    [ReducedRaw EXCEPT !.expenses = File(<<ExpenseRow(1, "CA", BadDate, 10)>>)]

\* An empty raw table: load_csv fails before anything is saved.
EmptyTaxesRaw == [BaseRaw EXCEPT !.taxes = File(<<>>)]

PipelineInputs ==
    {BaseRaw, ReducedRaw, NegativeExpenseRaw, OrphanClaimRaw, BadPolicyDateRaw,
     BadExpenseMonthRaw, EmptyTaxesRaw}

Init ==
    /\ raw = BaseRaw
    /\ dbUrl = TRUE
    /\ staged = NoFiles
    /\ store = EmptyStore
    /\ txn = NoTxn
    /\ stage = "idle"
    /\ step = 1
    /\ exit = NoExits
    /\ preLog = <<>>
    /\ postErrors = <<>>
    /\ viewLog = <<>>
    /\ loadLog = <<>>
    /\ storeAtStart = EmptyStore
    /\ stagedComplete = FALSE

\* A pipeline run starts on whatever the generator left in output/raw.
StartRun ==
    /\ stage \in {"idle", "halted", "done"}
    /\ raw' \in PipelineInputs
    /\ dbUrl' \in BOOLEAN
    /\ stage' = "transform"
    /\ step' = 1
    /\ exit' = NoExits
    /\ preLog' = <<>>
    /\ postErrors' = <<>>
    /\ viewLog' = <<>>
    /\ loadLog' = <<>>
    /\ txn' = NoTxn
    /\ storeAtStart' = store
    /\ UNCHANGED <<staged, store, stagedComplete>>

Next ==
    \/ StartRun
    \/ TransformLoad \/ TransformSave
    \/ PreCheck
    \/ LoadConnect \/ LoadBegin \/ LoadTruncate \/ LoadCopy \/ LoadCommit
    \/ PostConnect \/ PostCount \/ PostFk \/ PostView \/ PostSummary

Spec == Init /\ [][Next]_vars

-----------------------------------------------------------------------------
(* Post-load validation runs: the validator on the stores a load of any    *)
(* transform output leaves behind.                                         *)

TransformCompletes(r) ==
    /\ \A f \in Range(RawOrder) : RawLoads(r[f])
    /\ \A t \in Tables : Build(t, r).ok

TransformOutput(r) == [t \in Tables |-> File(Build(t, r).rows)]

LoadedStore(files) == [t \in Tables |-> CopyRows(t, files)]

PostStores ==
    {EmptyStore} \cup
    {LoadedStore(TransformOutput(r)) : r \in {x \in StagingInputs : TransformCompletes(x)}}

InitPost ==
    /\ raw = BaseRaw
    /\ dbUrl \in BOOLEAN
    /\ staged = NoFiles
    /\ store \in PostStores
    /\ txn = NoTxn
    /\ stage = "postcheck"
    /\ step = 1
    /\ exit = NoExits
    /\ preLog = <<>>
    /\ postErrors = <<>>
    /\ viewLog = <<>>
    /\ loadLog = <<>>
    /\ storeAtStart = store
    /\ stagedComplete = FALSE

NextPost == PostConnect \/ PostCount \/ PostFk \/ PostView \/ PostSummary

SpecPost == InitPost /\ [][NextPost]_vars

-----------------------------------------------------------------------------
(* Validation and load runs on a staging directory: the pre-load validator *)
(* and the loader read whatever files output/normalized holds.  The        *)
(* directories are the transform's output for the baseline with the cells  *)
(* of some columns replaced, or with a file missing or empty.              *)

StagedBase == TransformOutput(BaseRaw)

ExpirationKeys == {20240301, 20240302, 20250101}
EffectiveKeys == {20240228, 20240101}
SettlementKeys == {NullKey, 20240229, 20240401}

\* The rows with the cells of one column replaced, row by row.
WithCells(rows, col, cells) ==
    [i \in 1..Len(rows) |-> [rows[i] EXCEPT ![col] = cells[i]]]

\* n copies of a row, numbered 1..n in the id column.
Copies(row, idcol, n) == [i \in 1..n |-> [row EXCEPT ![idcol] = i]]

PolicyFiles ==
    LET rows == StagedBase["fact_policies"].rows
    IN  { WithCells(WithCells(rows, "expiration_date_key", x), "effective_date_key", e) :
            x \in [1..Len(rows) -> ExpirationKeys], e \in [1..Len(rows) -> EffectiveKeys] }

ClaimFilesBySettlement ==
    LET row == StagedBase["fact_claims"].rows[1]
    IN  UNION {{ WithCells(Copies(row, "claim_id", n), "settlement_date_key", k) :
                    k \in [1..n -> SettlementKeys] } : n \in 1..MaxRows}

AmountFiles(t, col) ==
    { WithCells(StagedBase[t].rows, col, a) :
        a \in [1..Len(StagedBase[t].rows) -> Amounts] }

\* The fraud_flag cells of a staged file: what the fact builder writes
\* (True, False), other spellings, and an empty cell.
FraudCells == {"True", "False", "1", "0", "yes", "T", NullCode}

ClaimFilesByFraud ==
    LET row == StagedBase["fact_claims"].rows[1]
    IN  UNION {{ WithCells(Copies(row, "claim_id", n), "fraud_flag", f) :
                    f \in [1..n -> FraudCells] } : n \in 1..MaxRows}

StagedDirs ==
    {[StagedBase EXCEPT !["fact_claims"] = File(c)] : c \in ClaimFilesByFraud} \cup
    {[StagedBase EXCEPT !["fact_policies"] = File(p), !["fact_claims"] = File(c)] :
        p \in PolicyFiles, c \in ClaimFilesBySettlement}
    \cup {[StagedBase EXCEPT !["fact_expenses"] = File(e), !["fact_taxes"] = File(t)] :
             e \in AmountFiles("fact_expenses", "expense_amount"),
             t \in AmountFiles("fact_taxes", "tax_amount")}
    \cup {[StagedBase EXCEPT ![t] = f] : t \in Tables, f \in {Missing, File(<<>>)}}

InitStaged ==
    /\ raw = BaseRaw
    /\ dbUrl \in BOOLEAN
    /\ staged \in StagedDirs
    /\ store = EmptyStore
    /\ txn = NoTxn
    /\ stage = "precheck"
    /\ step = 1
    /\ exit = NoExits
    /\ preLog = <<>>
    /\ postErrors = <<>>
    /\ viewLog = <<>>
    /\ loadLog = <<>>
    /\ storeAtStart = EmptyStore
    /\ stagedComplete = FALSE

NextStaged ==
    \/ PreCheck
    \/ LoadConnect \/ LoadBegin \/ LoadTruncate \/ LoadCopy \/ LoadCommit

SpecStaged == InitStaged /\ [][NextStaged]_vars

-----------------------------------------------------------------------------
(* Properties.                                                             *)

InLog(log, entry) == \E i \in 1..Len(log) : log[i] = entry

\* The tables the transform of this staging run has saved.
Saved(t) == staged[t].present

\* C1: when any truncate or COPY (or any other statement) of the loader
\* fails, nothing is committed: while the load runs and after it failed,
\* every store table holds what it held before the run.
LoadAllOrNothing ==
    (stage = "load" \/ exit["load"] = 1) =>
        /\ store = storeAtStart
        /\ ~InLog(loadLog, "commit")

\* C1 witness: a COPY failed after both truncates and some COPYs, on a
\* store that was not empty, and the store is as it was.
LoadFailedMidway ==
    /\ exit["load"] = 1
    /\ InLog(loadLog, "dim_policies")
    /\ loadLog[Len(loadLog)] = "rollback"
    /\ storeAtStart # EmptyStore
    /\ store = storeAtStart

\* C2: once the pre-load validator printed a FAIL, the loader is not run in
\* this pipeline run and the store is as it was when the run started.
FatalPreCheckKeepsStore ==
    Failed(preLog) =>
        /\ exit["precheck"] = 1
        /\ stage \notin {"load", "postcheck", "done"}
        /\ exit["load"] = NotRun
        /\ loadLog = <<>>
        /\ txn = NoTxn
        /\ store = storeAtStart

\* C2 witness: the validator failed on a store that an earlier run loaded.
FatalPreCheckSeen ==
    /\ Failed(preLog)
    /\ stage = "halted"
    /\ store # EmptyStore

\* The primary foreign keys of the fact tables.
PrimaryFKs ==
    { FK("fact_policies", "policy_id", "dim_policies", "policy_id"),
      FK("fact_policies", "product_key", "dim_products", "product_key"),
      FK("fact_policies", "state_code", "dim_state", "state_code"),
      FK("fact_policies", "effective_date_key", "dim_time", "date_key"),
      FK("fact_claims", "policy_id", "dim_policies", "policy_id"),
      FK("fact_claims", "product_key", "dim_products", "product_key"),
      FK("fact_claims", "state_code", "dim_state", "state_code"),
      FK("fact_claims", "incident_date_key", "dim_time", "date_key"),
      FK("fact_claims", "report_date_key", "dim_time", "date_key"),
      FK("fact_expenses", "state_code", "dim_state", "state_code"),
      FK("fact_expenses", "date_key", "dim_time", "date_key"),
      FK("fact_taxes", "policy_id", "dim_policies", "policy_id"),
      FK("fact_taxes", "state_code", "dim_state", "state_code") }

Resolves(tables, fk) == Col(tables[fk.child], fk.col) \subseteq Col(tables[fk.parent], fk.key)

\* C3: when the pre-load validator has passed, every primary foreign key
\* value of every staged fact table is a key of its staged dimension.
PassedPreCheckClosesFKs ==
    exit["precheck"] = 0 => \A fk \in PrimaryFKs : Resolves(Frames(staged), fk)

\* C3 witness: the validator passed on staged tables with several policies
\* and a claim.
PreCheckPassed ==
    /\ exit["precheck"] = 0
    /\ Len(staged["fact_policies"].rows) > 1
    /\ Len(staged["fact_claims"].rows) > 0

\* Every foreign key the store declares.
DeclaredFKs ==
    PrimaryFKs \cup
    { FK("dim_clients", "state_code", "dim_state", "state_code"),
      FK("dim_policies", "client_id", "dim_clients", "client_id"),
      FK("dim_policies", "state_code", "dim_state", "state_code") }

\* C4: when the post-load validator has passed, no store row holds a
\* non-null key value that is absent from the referenced dimension.
PassedPostCheckClosesFKs ==
    exit["postcheck"] = 0 => \A fk \in DeclaredFKs : Broken(store, fk) = 0

\* C5: after a successful load every store table holds exactly the staged
\* table of this run (fraud_flag coerced), which is what this run's
\* transform built from this run's raw tables.
StoreIsLatestRun ==
    exit["load"] = 0 =>
        \A t \in Tables :
            /\ store[t] = CopyRows(t, staged)
            /\ staged[t].rows = Build(t, raw).rows
            /\ Len(store[t]) = Len(Build(t, raw).rows)

\* C5 witness: a second successful load, of fewer clients than the first.
SecondLoadReplaced ==
    /\ exit["load"] = 0
    /\ Len(storeAtStart["dim_clients"]) = 2
    /\ Len(store["dim_clients"]) = 1

\* Whether the pre-load validator, run on these files, prints no FAIL.
ValidatorAccepts(files) ==
    \A i \in 1..Len(PreChecks) : ~Failed(PreCheckLines(PreChecks[i], files))

ObservedDates ==
    { d \in Col(raw.policies.rows, "effective_date")
            \cup Col(raw.policies.rows, "expiration_date")
            \cup Col(raw.claims.rows, "incident_date")
            \cup Col(raw.claims.rows, "report_date") : ValidDate(d) }

DateLE(a, b) ==
    \/ a[1] < b[1]
    \/ a[1] = b[1] /\ a[2] < b[2]
    \/ a[1] = b[1] /\ a[2] = b[2] /\ a[3] <= b[3]

NextDay(d) ==
    IF d[3] < DaysInMonth(d[1], d[2]) THEN <<d[1], d[2], d[3] + 1>>
    ELSE IF d[2] < 12 THEN <<d[1], d[2] + 1, 1>>
    ELSE <<d[1] + 1, 1, 1>>

\* C7: the saved time dimension has unique date keys, starts at the
\* earliest and ends at the latest observed date, and each row is the
\* calendar day after the row before it.
TimeDimContiguous ==
    Saved("dim_time") =>
        LET rows == staged["dim_time"].rows
        IN  /\ rows # <<>>
            /\ ~HasDuplicates(rows, "date_key")
            /\ \A d \in ObservedDates :
                   DateLE(rows[1].full_date, d) /\ DateLE(d, rows[Len(rows)].full_date)
            /\ rows[1].full_date \in ObservedDates
            /\ rows[Len(rows)].full_date \in ObservedDates
            /\ \A i \in 1..(Len(rows) - 1) :
                   rows[i + 1].full_date = NextDay(rows[i].full_date)
            /\ \A i \in 1..Len(rows) :
                   rows[i].date_key = rows[i].full_date[1] * 10000
                       + rows[i].full_date[2] * 100 + rows[i].full_date[3]

\* C7 witness: a time dimension from 28 February over the leap day to 1 March.
TimeDimOverLeapDay ==
    /\ Saved("dim_time")
    /\ [i \in 1..Len(staged["dim_time"].rows) |-> staged["dim_time"].rows[i].date_key]
           = <<20240228, 20240229, 20240301>>

\* C8: distinct (line_of_business, plan_name) pairs give distinct product
\* keys, so no two rows of the product dimension share a product_key.
ProductKeysUnique ==
    Saved("dim_products") => ~HasDuplicates(staged["dim_products"].rows, "product_key")

ProductKeysOf(rows) == Col(rows, "product_key")

\* C9: every fact_policies row, and every fact_claims row of a policy that
\* is in the policy table, carries a product_key of the product dimension
\* built from the same policies.
FactProductKeysResolve ==
    Saved("fact_claims") =>
        LET keys == ProductKeysOf(staged["dim_products"].rows)
            ids == Col(raw.policies.rows, "policy_id")
        IN  /\ Len(staged["fact_policies"].rows) = Len(raw.policies.rows)
            /\ \A i \in 1..Len(staged["fact_policies"].rows) :
                   staged["fact_policies"].rows[i].product_key \in keys
            /\ \A i \in 1..Len(staged["fact_claims"].rows) :
                   staged["fact_claims"].rows[i].policy_id \in ids
                       => staged["fact_claims"].rows[i].product_key \in keys

\* C9 witness: a claim on a policy whose plan name holds a space.
FactKeyWithSpace ==
    /\ Saved("fact_claims")
    /\ \E i \in 1..Len(staged["fact_claims"].rows) :
           staged["fact_claims"].rows[i].product_key = <<"A", "_", "A", "_", "B">>
    /\ \E i \in 1..Len(raw.policies.rows) :
           raw.policies.rows[i].plan_name = <<"a", " ", "b">>

AmountsOf(rows, c) == [i \in 1..Len(rows) |-> rows[i][c]]

HasNegative(rows, c) == \E i \in 1..Len(rows) : rows[i][c] < 0

NegativeStaged ==
    \/ Saved("fact_expenses") /\ HasNegative(staged["fact_expenses"].rows, "expense_amount")
    \/ Saved("fact_taxes") /\ HasNegative(staged["fact_taxes"].rows, "tax_amount")

\* C10: the fact builders keep every amount, negative ones included, and
\* the pre-load validator never passes while a staged expense or tax row is
\* negative: once it has ended, it has ended with a FAIL and status 1.
NegativeAmountIsFatal ==
    /\ Saved("fact_expenses") =>
           AmountsOf(staged["fact_expenses"].rows, "expense_amount")
               = AmountsOf(raw.expenses.rows, "expense_amount")
    /\ Saved("fact_taxes") =>
           AmountsOf(staged["fact_taxes"].rows, "tax_amount")
               = AmountsOf(raw.taxes.rows, "tax_amount")
    /\ NegativeStaged => exit["precheck"] # 0
    /\ (NegativeStaged /\ exit["transform"] = 0 /\ stage # "precheck") =>
           exit["precheck"] = 1 /\ Failed(preLog)

\* C10 witness: the validator failed on a negative expense amount in the
\* second row of a table whose first row is not negative.
NegativeSecondRowFailed ==
    /\ exit["precheck"] = 1
    /\ preLog[Len(preLog)] = Line("FAIL", "fact_expenses.expense_amount")
    /\ Len(staged["fact_expenses"].rows) = 2
    /\ staged["fact_expenses"].rows[1].expense_amount >= 0
    /\ staged["fact_expenses"].rows[2].expense_amount < 0

\* The fact_claims rows built from the raw claim with this claim_id.
FactClaimsOf(id) ==
    SelectSeq(staged["fact_claims"].rows, LAMBDA r : r.claim_id = id)

\* The raw claims whose policy_id is not in the raw policy table.
OrphanClaims ==
    {i \in 1..Len(raw.claims.rows) :
        raw.claims.rows[i].policy_id \notin Col(raw.policies.rows, "policy_id")}

\* Whether every call of the validator's main() before the named one prints
\* no FAIL on these files.
PassesBefore(name, files) ==
    \A i \in 1..Len(PreChecks) :
        (\E j \in (i + 1)..Len(PreChecks) : PreChecks[j] = name)
            => ~Failed(PreCheckLines(PreChecks[i], files))

NullEnrichment(r) ==
    /\ r.state_code = NullCode
    /\ r.region_code = NullCode
    /\ r.line_of_business = NullText
    /\ r.product_key = NullText

\* C11: a raw claim on a policy that is not in the policy table is kept as
\* a fact_claims row whose enrichment fields are null, and once the pre-load
\* validator has run on such a row it has failed on fact_claims.policy_id
\* (when nothing before that check failed) and the pipeline is halted with
\* the store untouched.
OrphanClaimKeptAndFatal ==
    Saved("fact_claims") =>
        /\ \A i \in OrphanClaims :
               LET rows == FactClaimsOf(raw.claims.rows[i].claim_id)
               IN  /\ rows # <<>>
                   /\ \E j \in 1..Len(rows) :
                          rows[j].policy_id = raw.claims.rows[i].policy_id
                              /\ NullEnrichment(rows[j])
        /\ Len(staged["fact_claims"].rows) >= Len(raw.claims.rows)
        /\ (OrphanClaims # {} /\ exit["transform"] = 0) =>
               /\ exit["precheck"] # 0
               /\ stage \notin {"load", "postcheck", "done"}
               /\ store = EmptyStore /\ loadLog = <<>>
               /\ stage # "precheck" =>
                      /\ exit["precheck"] = FailExit
                      /\ stage = "halted"
                      /\ Failed(preLog)
                      /\ PassesBefore("check_fact_claims", staged) =>
                             preLog[Len(preLog)] = Line("FAIL", "fact_claims.policy_id")

\* C11 witness: two claims, the second on a policy that is not in the policy
\* table; both are staged and the validator failed on fact_claims.policy_id.
OrphanClaimHalted ==
    /\ stage = "halted"
    /\ Len(raw.claims.rows) = 2
    /\ OrphanClaims = {2}
    /\ Len(staged["fact_claims"].rows) = 2
    /\ NullEnrichment(staged["fact_claims"].rows[2])
    /\ preLog # <<>>
    /\ preLog[Len(preLog)] = Line("FAIL", "fact_claims.policy_id")

SecondaryChecks == {"fact_policies.expiration_date_key", "fact_claims.settlement_date_key"}

UnresolvedExpiration(d) ==
    Col(d["fact_policies"], "expiration_date_key") \ Col(d["dim_time"], "date_key")

UnresolvedSettlement(d) ==
    (Col(d["fact_claims"], "settlement_date_key") \ {NullKey})
        \ Col(d["dim_time"], "date_key")

Warned(log, msg, n) ==
    \E i \in 1..Len(log) : log[i] = [level |-> "WARN", msg |-> msg, count |-> n]

\* C12: the pre-load validator never fails on a secondary date reference;
\* when no other check fails it ends with status 0, and for an expiration
\* key, or a non-null settlement key, that is missing from dim_time it has
\* printed a warning that carries the number of missing key values.
SecondaryDatesOnlyWarn ==
    (stage # "precheck" /\ exit["precheck"] # NotRun) =>
        LET d == Frames(staged)
        IN  /\ exit["precheck"] # 0 =>
                   /\ preLog[Len(preLog)].level = "FAIL"
                   /\ preLog[Len(preLog)].msg \notin SecondaryChecks
            /\ ValidatorAccepts(staged) =>
                   /\ exit["precheck"] = 0
                   /\ UnresolvedExpiration(d) # {} =>
                          Warned(preLog, "fact_policies.expiration_date_key",
                                 Cardinality(UnresolvedExpiration(d)))
                   /\ UnresolvedSettlement(d) # {} =>
                          Warned(preLog, "fact_claims.settlement_date_key",
                                 Cardinality(UnresolvedSettlement(d)))

\* C12 witness: the validator passed with two expiration keys and one
\* settlement key missing from dim_time.
PassedWithSecondaryWarnings ==
    /\ exit["precheck"] = 0
    /\ Cardinality(UnresolvedExpiration(Frames(staged))) = 2
    /\ Cardinality(UnresolvedSettlement(Frames(staged))) = 1
    /\ Warned(preLog, "fact_policies.expiration_date_key", 2)
    /\ Warned(preLog, "fact_claims.settlement_date_key", 1)

\* C13: the post-load validator passes only when each of the four views was
\* executed and returned at least one row: a view that raises, or that
\* returns no row, makes the validator end with a non-zero status.
PassedPostCheckSawViewRows ==
    /\ exit["postcheck"] = 0 =>
           /\ Len(viewLog) = Len(views)
           /\ \A i \in 1..Len(viewLog) : viewLog[i] = "row"
    /\ (stage # "postcheck" /\ viewLog # <<>> /\ viewLog[Len(viewLog)] = "error") =>
           exit["postcheck"] = 1

Reported(errors, check, n) ==
    \E i \in 1..Len(errors) : errors[i] = [check |-> check, count |-> n]

\* Whether the table loop and the FK loop of the post-load validator are over.
PostLoopsDone ==
    \/ stage = "postcheck" /\ step > 1 + NTables + Len(fk_checks)
    \/ viewLog # <<>>

PostFindings ==
    \/ \E t \in Tables : store[t] = <<>>
    \/ \E i \in 1..Len(fk_checks) : Broken(store, fk_checks[i]) > 0

\* C14: the post-load validator leaves the store as it found it (no
\* statement of a transaction, no truncate, no rollback); once its loops are
\* over it has reported every empty table and every checked relationship
\* with broken rows together with their number; and when it has ended on a
\* store with such a finding it has ended with status 1.
PostCheckReportsAndKeepsStore ==
    /\ store = storeAtStart
    /\ txn = NoTxn
    /\ loadLog = <<>>
    /\ PostLoopsDone =>
           /\ \A t \in Tables : store[t] = <<>> => Reported(postErrors, <<t>>, 0)
           /\ \A i \in 1..Len(fk_checks) :
                  LET fk == fk_checks[i]
                  IN  Broken(store, fk) > 0 =>
                          Reported(postErrors, <<fk.child, fk.col>>, Broken(store, fk))
    /\ (stage # "postcheck" /\ exit["postcheck"] # NotRun /\ PostFindings) =>
           exit["postcheck"] = 1

\* C14 witness: every view returned a row and the validator ended with
\* status 1, having reported two fact_claims rows without their policy, on
\* a store that is as it was.
PostCheckReportedBrokenRows ==
    /\ exit["postcheck"] = 1
    /\ Len(viewLog) = Len(views)
    /\ \A i \in 1..Len(viewLog) : viewLog[i] = "row"
    /\ Reported(postErrors, <<"fact_claims", "policy_id">>, 2)
    /\ store = storeAtStart
    /\ store # EmptyStore

\* C15: in both validators a fatal finding ends the stage, so no check runs
\* after it, and a warning does not: a step of the pre-load validator that
\* prints a FAIL leaves the stage, one that prints none goes on to the next
\* check, and the post-load validator takes no further check once it has a
\* finding in its errors list.
StagesStopAtFirstFatal ==
    [][ /\ (stage = "precheck" /\ Failed(preLog')) => stage' = "halted"
        /\ (stage = "precheck" /\ ~Failed(preLog') /\ step < Len(PreChecks)) =>
               stage' = "precheck" /\ step' = step + 1
        /\ (stage = "postcheck" /\ postErrors # <<>>) => stage' # "postcheck" ]_vars

\* C16: while the connection string is absent no stage of the run does any
\* work: no stage ends with status 0, the validators print nothing and the
\* loader executes no statement.
MissingUrlRunsNothing ==
    ~dbUrl =>
        /\ \A g \in Range(Stages) : exit[g] # 0
        /\ stage # "done"
        /\ preLog = <<>>
        /\ loadLog = <<>>
        /\ postErrors = <<>>
        /\ viewLog = <<>>

SortedByState(rows) ==
    \A i \in 1..(Len(rows) - 1) :
        StateRank(rows[i].state_code) <= StateRank(rows[i + 1].state_code)

\* C17: the saved state dimension is sorted ascending by state_code and no
\* two of its rows share a state_code, whatever the client table.
StateDimUniqueSorted ==
    Saved("dim_state") =>
        /\ SortedByState(staged["dim_state"].rows)
        /\ ~HasDuplicates(staged["dim_state"].rows, "state_code")

\* The first day of the month of a raw date cell, as a date key.
FirstOfMonth(cell) == cell[1] * 10000 + cell[2] * 100 + 1

ExpenseKeysNormalized ==
    /\ Len(staged["fact_expenses"].rows) = Len(raw.expenses.rows)
    /\ \A i \in 1..Len(raw.expenses.rows) :
           staged["fact_expenses"].rows[i].date_key
               = FirstOfMonth(raw.expenses.rows[i].expense_month)

ExpenseKeysResolve ==
    Col(staged["fact_expenses"].rows, "date_key")
        \subseteq Col(staged["dim_time"].rows, "date_key")

Reverse(seq) == [i \in 1..Len(seq) |-> seq[Len(seq) + 1 - i]]

\* b is in the log only after a.
Before(log, a, b) ==
    \A j \in 1..Len(log) : log[j] = b => \E i \in 1..(j - 1) : log[i] = a

IsPrefix(p, q) == Len(p) <= Len(q) /\ p = SubSeq(q, 1, Len(p))

\* C19: the loader truncates the four fact tables, then the five dimension
\* tables, then copies the dimensions in the reverse of the order the
\* TRUNCATE names them and only then the facts; every one of these
\* statements comes after BEGIN and before the commit or rollback that ends
\* the transaction.
LoadOrderFactsThenDims ==
    /\ Range(TruncateFactsList) = TruncatedFacts
    /\ Range(TruncateDimsList) = TruncatedDims
    /\ TruncatedFacts = Range(FactTables) /\ TruncatedDims = Range(DimTables)
    /\ Before(loadLog, "truncate_facts", "truncate_dims")
    /\ \A t \in Tables : Before(loadLog, "truncate_dims", t)
    /\ \A f \in Range(FactTables) : \A d \in Range(DimTables) : Before(loadLog, d, f)
    /\ IsPrefix(SelectSeq(loadLog, LAMBDA e : e \in Range(DimTables)),
                Reverse(TruncateDimsList))
    /\ \A e \in Range(loadLog) \ {"begin", "rollback"} : Before(loadLog, "begin", e)
    /\ \A j \in 1..(Len(loadLog) - 1) : loadLog[j] \notin {"commit", "rollback"}
    /\ (stage = "load" /\ loadLog # <<>>) => txn.open
    /\ exit["load"] = 0 => Len(loadLog) = Len(LoadSteps) - 1

\* C19 witness: a committed load.
LoadCommittedInOrder ==
    /\ exit["load"] = 0
    /\ loadLog = <<"begin", "truncate_facts", "truncate_dims", "dim_time", "dim_state",
                   "dim_clients", "dim_products", "dim_policies", "fact_policies",
                   "fact_claims", "fact_expenses", "fact_taxes", "commit">>

TruthyTokens == {"1", "true", "t", "yes"}

\* The fact_claims rows the loader has copied: in the open transaction
\* after the COPY, in the store after the commit.
CopiedClaims ==
    IF exit["load"] = 0 THEN store["fact_claims"] ELSE txn.tables["fact_claims"]

ClaimsCopied ==
    \/ exit["load"] = 0
    \/ stage = "load" /\ txn.open /\ InLog(loadLog, "fact_claims")

UnusableRaw == {f \in Range(RawOrder) : ~raw[f].present \/ raw[f].rows = <<>>}

\* C21: when one of the five raw tables is missing or empty the transform
\* writes none of the nine staged files and never ends with status 0: once
\* it has ended, it has ended with status 1 and the pipeline is halted.
UnusableRawWritesNothing ==
    UnusableRaw # {} =>
        /\ staged = NoFiles
        /\ exit["transform"] # 0
        /\ stage \in {"transform", "halted"}
        /\ stage = "halted" => exit["transform"] = 1

\* C21 witness: the last raw table read, taxes, is present and empty; the
\* transform read the four before it, ended with status 1 and wrote nothing.
EmptyTaxesHalted ==
    /\ raw.taxes.present /\ raw.taxes.rows = <<>>
    /\ UnusableRaw = {"taxes"}
    /\ exit["transform"] = 1
    /\ stage = "halted"
    /\ staged = NoFiles

\* The date key columns the fact builders derive from the dates that the
\* time dimension is built from.
BuiltDateKeys ==
    { <<"fact_policies", "effective_date_key">>, <<"fact_policies", "expiration_date_key">>,
      <<"fact_claims", "incident_date_key">>, <<"fact_claims", "report_date_key">> }

OneFactRowPerClaim ==
    Saved("fact_claims") =>
        /\ Len(staged["fact_claims"].rows) = Len(raw.claims.rows)
        /\ \A i \in 1..Len(raw.claims.rows) :
               Len(FactClaimsOf(raw.claims.rows[i].claim_id))
                   = Len(SelectSeq(raw.claims.rows,
                                   LAMBDA c : c.claim_id = raw.claims.rows[i].claim_id))

Count(log, e) == Cardinality({i \in 1..Len(log) : log[i] = e})

\* The statements of a load up to the commit, in the order run() has them.
StatementsBeforeCommit ==
    <<"begin", "truncate_facts", "truncate_dims">> \o SaveOrder

\* C24: a load that has executed BEGIN and has ended has executed exactly
\* one of commit and rollback, as its last statement, with status 0 exactly
\* for the commit; the commit comes only after the two truncates and the
\* nine COPYs; no statement is executed twice; and cursor and connection
\* are closed when the load has ended.  While the load runs it has executed
\* neither.
LoadEndsCommitOrRollback ==
    /\ \A e \in Range(loadLog) : Count(loadLog, e) = 1
    /\ InLog(loadLog, "commit") =>
           loadLog = StatementsBeforeCommit \o <<"commit">>
    /\ (stage = "load" /\ txn.open) =>
           /\ InLog(loadLog, "begin")
           /\ ~InLog(loadLog, "commit") /\ ~InLog(loadLog, "rollback")
           /\ IsPrefix(loadLog, StatementsBeforeCommit)
    /\ (exit["load"] # NotRun /\ InLog(loadLog, "begin")) =>
           /\ Count(loadLog, "commit") + Count(loadLog, "rollback") = 1
           /\ loadLog[Len(loadLog)] \in {"commit", "rollback"}
           /\ exit["load"] = 0 <=> InLog(loadLog, "commit")
           /\ ~txn.open
           /\ txn.conn = "closed"

\* C24 witness: the commit itself failed after the two truncates and the
\* nine COPYs: the load ended with a rollback and no commit, connection
\* closed, store as it was.
CommitFailedRolledBack ==
    /\ exit["load"] = 1
    /\ loadLog = StatementsBeforeCommit \o <<"rollback">>
    /\ txn.conn = "closed"
    /\ store = storeAtStart
    /\ storeAtStart # EmptyStore

====
